---- MODULE Spec2Model ----
(***************************************************************************)
(* The Volta M-of-N multi-signature governance contract, as documented in  *)
(* stellar/troubleshooting.md (contract methods, errors, voting logic),    *)
(* stellar/tutorials/first-proposal.md, tutorials/getting-started.md and   *)
(* tutorials/integration.md.  One action per contract entry point; each    *)
(* action is the whole call: validation, mutation and inline execution.    *)
(* Spec is the contract.  SpecClient is the TypeScript client's            *)
(* submitTransaction / deployVoltaContract (examples/typescript/src/       *)
(* index.ts), one action per statement, against a deployed contract.       *)
(***************************************************************************)
EXTENDS Integers, Sequences, FiniteSets, TLC

VARIABLES config, epoch, next_id, proposals, calls, now, client, network

vars == <<config, epoch, next_id, proposals, calls, now, client, network>>

(***************************************************************************)
(* Bounds of the model.                                                    *)
(***************************************************************************)
NumAddr == 3
MaxProposals == 2
MaxDrift == 1
MaxBallots == 4

(***************************************************************************)
(* Program constants.                                                      *)
(***************************************************************************)
WEEK_IN_LEDGERS == 120960
MinOwners == 2
MinThreshold == 2
HashLen == 32
FirstId == 1

Addr == 1..NumAddr
VoteType == {"Yes", "No", "Abstain"}
ProposalStatus == {"Pending", "Approved", "Rejected", "Executed", "Revoked"}

(***************************************************************************)
(* Inputs.  Owner lists are Vec<Address>: sequences that may repeat an     *)
(* address or be too short.  The lists enumerated start at address 1 and   *)
(* each next entry repeats the previous address or names the next one.     *)
(***************************************************************************)
OwnerLists ==
    {s \in UNION {[1..n -> Addr] : n \in 1..NumAddr} :
        /\ s[1] = 1
        /\ \A i \in 1..(Len(s) - 1) : s[i + 1] \in {s[i], s[i] + 1}}

ConfigInputs ==
    {[owners |-> o, threshold |-> t] : o \in OwnerLists, t \in 1..(NumAddr + 1)}

ZeroHash == [i \in 1..HashLen |-> 0]
OnesHash == [i \in 1..HashLen |-> 255]
MixedHash == [i \in 1..HashLen |-> IF i = 1 THEN 255 ELSE 0]
UpgradeHashes == {ZeroHash, OnesHash, MixedHash}

Targets == {[executable |-> TRUE], [executable |-> FALSE]}
FnNames == {"", "transfer"}

(***************************************************************************)
(* Config validation (InvalidOwners, InvalidThreshold).                    *)
(***************************************************************************)
HasDuplicates(owners) ==
    \E i, j \in DOMAIN owners : i # j /\ owners[i] = owners[j]

ValidOwners(owners) ==
    Len(owners) >= MinOwners /\ ~HasDuplicates(owners)

ValidThreshold(owners, threshold) ==
    threshold >= MinThreshold /\ threshold <= Len(owners)

ValidConfig(c) ==
    ValidOwners(c.owners) /\ ValidThreshold(c.owners, c.threshold)

OwnerSet(c) == {c.owners[i] : i \in DOMAIN c.owners}

IsOwner(a) == a \in OwnerSet(config)

(***************************************************************************)
(* Vote counting and the decision (calculateVoteProgress, Voting Logic).   *)
(***************************************************************************)
\* Variant of the count in which an Abstain counts towards Yes.
CountVotesAbstainAsYes(votes, v) ==
    Cardinality({a \in DOMAIN votes :
                    votes[a] = v \/ (v = "Yes" /\ votes[a] = "Abstain")})

CountVotes(votes, v) == Cardinality({a \in DOMAIN votes : votes[a] = v})

\* Variant of the remaining count in which an Abstain does not use up a vote.
RemainingIgnoresAbstain(votes, c) ==
    Len(c.owners) - (CountVotes(votes, "Yes") + CountVotes(votes, "No"))

Remaining(votes, c) ==
    Len(c.owners)
        - (CountVotes(votes, "Yes") + CountVotes(votes, "No") + CountVotes(votes, "Abstain"))

\* Variants of the approval test: one Yes short of the threshold, and strict.
WillPassOneShort(votes, c) == CountVotes(votes, "Yes") >= c.threshold - 1

WillPassStrict(votes, c) == CountVotes(votes, "Yes") > c.threshold

WillPass(votes, c) == CountVotes(votes, "Yes") >= c.threshold

\* Variant of the rejection test that waits for one more vote.
WillFailLate(votes, c) == CountVotes(votes, "Yes") + Remaining(votes, c) + 1 < c.threshold

WillFail(votes, c) == CountVotes(votes, "Yes") + Remaining(votes, c) < c.threshold

Decide(votes, c) ==
    IF WillPass(votes, c) THEN "Approved"
    ELSE IF WillFail(votes, c) THEN "Rejected"
    ELSE "Pending"

(***************************************************************************)
(* Proposal access: expiry, invalidation by a config change, and the       *)
(* errors of get_proposal.                                                 *)
(***************************************************************************)
NoError == "Ok"

\* Variant of the expiry test that already expires a proposal at its TTL.
ExpiredAtTTL(p) == now >= p.created_at + WEEK_IN_LEDGERS

Expired(p) == now > p.created_at + WEEK_IN_LEDGERS

\* Variant of the invalidation test that spares proposals no longer Pending.
StaleOnlyPending(p) == p.created_epoch < epoch /\ p.status = "Pending"

Stale(p) == p.created_epoch < epoch

\* Variant of the lookup that reports an invalidated proposal as not found.
ResolveStaleNotFound(id) ==
    IF id \notin DOMAIN proposals THEN "ProposalNotFound"
    ELSE IF Expired(proposals[id]) THEN "ProposalNotFound"
    ELSE IF Stale(proposals[id]) THEN "ProposalNotFound"
    ELSE NoError

\* Variant of the lookup without the invalidation test.
ResolveIgnoresEpoch(id) ==
    IF id \notin DOMAIN proposals THEN "ProposalNotFound"
    ELSE IF Expired(proposals[id]) THEN "ProposalNotFound"
    ELSE NoError

Resolve(id) ==
    IF id \notin DOMAIN proposals THEN "ProposalNotFound"
    ELSE IF Expired(proposals[id]) THEN "ProposalNotFound"
    ELSE IF Stale(proposals[id]) THEN "ProposalNotPending"
    ELSE NoError

(***************************************************************************)
(* vote: the documented errors, each with its condition, and the order in  *)
(* which the checks run.                                                   *)
(***************************************************************************)
\* Variant of the order of vote's checks with the owner check first.
VoteChecksOwnerFirst == <<"NotOwner", "Resolve", "ProposalNotPending", "VoterAlreadyVoted">>

VoteChecks == <<"Resolve", "NotOwner", "ProposalNotPending", "VoterAlreadyVoted">>

\* Variant of the vote checks without the status check.
VoteCheckAnyStatus(check, owner, id) ==
    CASE check = "Resolve" -> Resolve(id)
      [] check = "NotOwner" ->
            IF IsOwner(owner) THEN NoError ELSE "NotOwner"
      [] check = "ProposalNotPending" -> NoError
      [] check = "VoterAlreadyVoted" ->
            IF owner \in DOMAIN proposals[id].votes THEN "VoterAlreadyVoted" ELSE NoError

\* Variants of the vote checks: without the repeat-vote check, and without the
\* owner check.
VoteCheckNoRepeat(check, owner, id) ==
    CASE check = "Resolve" -> Resolve(id)
      [] check = "NotOwner" ->
            IF IsOwner(owner) THEN NoError ELSE "NotOwner"
      [] check = "ProposalNotPending" ->
            IF proposals[id].status = "Pending" THEN NoError ELSE "ProposalNotPending"
      [] check = "VoterAlreadyVoted" -> NoError

VoteCheckNoOwner(check, owner, id) ==
    CASE check = "Resolve" -> Resolve(id)
      [] check = "NotOwner" -> NoError
      [] check = "ProposalNotPending" ->
            IF proposals[id].status = "Pending" THEN NoError ELSE "ProposalNotPending"
      [] check = "VoterAlreadyVoted" ->
            IF owner \in DOMAIN proposals[id].votes THEN "VoterAlreadyVoted" ELSE NoError

VoteCheck(check, owner, id) ==
    CASE check = "Resolve" -> Resolve(id)
      [] check = "NotOwner" ->
            IF IsOwner(owner) THEN NoError ELSE "NotOwner"
      [] check = "ProposalNotPending" ->
            IF proposals[id].status = "Pending" THEN NoError ELSE "ProposalNotPending"
      [] check = "VoterAlreadyVoted" ->
            IF owner \in DOMAIN proposals[id].votes THEN "VoterAlreadyVoted" ELSE NoError

RECURSIVE FirstVoteError(_, _, _)
FirstVoteError(checks, owner, id) ==
    IF checks = <<>> THEN NoError
    ELSE IF VoteCheck(Head(checks), owner, id) # NoError
         THEN VoteCheck(Head(checks), owner, id)
         ELSE FirstVoteError(Tail(checks), owner, id)

VoteError(owner, id) == FirstVoteError(VoteChecks, owner, id)

(***************************************************************************)
(* revoke_proposal: errors and their order.                                *)
(***************************************************************************)
RevokeChecks == <<"Resolve", "ProposalNotPending", "NotCaller">>

\* Variants of the revoke checks: without the status check, and without the
\* creator check.
RevokeCheckAnyStatus(check, caller, id) ==
    CASE check = "Resolve" -> Resolve(id)
      [] check = "ProposalNotPending" -> NoError
      [] check = "NotCaller" ->
            IF caller = proposals[id].caller THEN NoError ELSE "NotCaller"

RevokeCheckAnyCaller(check, caller, id) ==
    CASE check = "Resolve" -> Resolve(id)
      [] check = "ProposalNotPending" ->
            IF proposals[id].status = "Pending" THEN NoError ELSE "ProposalNotPending"
      [] check = "NotCaller" -> NoError

RevokeCheck(check, caller, id) ==
    CASE check = "Resolve" -> Resolve(id)
      [] check = "ProposalNotPending" ->
            IF proposals[id].status = "Pending" THEN NoError ELSE "ProposalNotPending"
      [] check = "NotCaller" ->
            IF caller = proposals[id].caller THEN NoError ELSE "NotCaller"

RECURSIVE FirstRevokeError(_, _, _)
FirstRevokeError(checks, caller, id) ==
    IF checks = <<>> THEN NoError
    ELSE IF RevokeCheck(Head(checks), caller, id) # NoError
         THEN RevokeCheck(Head(checks), caller, id)
         ELSE FirstRevokeError(Tail(checks), caller, id)

RevokeError(caller, id) == FirstRevokeError(RevokeChecks, caller, id)

(***************************************************************************)
(* propose and invoke: payload validation.                                 *)
(***************************************************************************)
\* Variant of the config validation that accepts the live config.
ConfigErrorAllowsSame(c) ==
    IF ~ValidOwners(c.owners) THEN "InvalidOwners"
    ELSE IF ~ValidThreshold(c.owners, c.threshold) THEN "InvalidThreshold"
    ELSE NoError

\* Variant of the config validation without the threshold check.
ConfigErrorNoThresholdCheck(c) ==
    IF ~ValidOwners(c.owners) THEN "InvalidOwners"
    ELSE IF c = config THEN "NoConfigChanges"
    ELSE NoError

ConfigError(c) ==
    IF ~ValidOwners(c.owners) THEN "InvalidOwners"
    ELSE IF ~ValidThreshold(c.owners, c.threshold) THEN "InvalidThreshold"
    ELSE IF c = config THEN "NoConfigChanges"
    ELSE NoError

\* Variant of the upgrade validation that only refuses the all-zero hash.
UpgradeErrorZeroOnly(hash) ==
    IF \A i \in DOMAIN hash : hash[i] = 0 THEN "InvalidUpgrade" ELSE NoError

UpgradeError(hash) ==
    IF (\A i \in DOMAIN hash : hash[i] = 0) \/ (\A i \in DOMAIN hash : hash[i] = 255)
    THEN "InvalidUpgrade"
    ELSE NoError

PayloadError(input) ==
    CASE input.tag = "Config" -> ConfigError(input.config)
      [] input.tag = "Upgrade" -> UpgradeError(input.hash)
      [] OTHER -> NoError

ProposeChecks == <<"InvokeNotAllowed", "NotOwner", "Payload">>

\* Variant of the propose checks that lets an Invoke payload through.
ProposeCheckAllowsInvoke(check, owner, input) ==
    CASE check = "InvokeNotAllowed" -> NoError
      [] check = "NotOwner" ->
            IF IsOwner(owner) THEN NoError ELSE "NotOwner"
      [] check = "Payload" -> PayloadError(input)

\* Variants of the propose checks: without the owner check, and without the
\* payload validation.
ProposeCheckAnyCaller(check, owner, input) ==
    CASE check = "InvokeNotAllowed" ->
            IF input.tag = "Invoke" THEN "InvokeNotAllowed" ELSE NoError
      [] check = "NotOwner" -> NoError
      [] check = "Payload" -> PayloadError(input)

ProposeCheckNoPayload(check, owner, input) ==
    CASE check = "InvokeNotAllowed" ->
            IF input.tag = "Invoke" THEN "InvokeNotAllowed" ELSE NoError
      [] check = "NotOwner" ->
            IF IsOwner(owner) THEN NoError ELSE "NotOwner"
      [] check = "Payload" -> NoError

ProposeCheck(check, owner, input) ==
    CASE check = "InvokeNotAllowed" ->
            IF input.tag = "Invoke" THEN "InvokeNotAllowed" ELSE NoError
      [] check = "NotOwner" ->
            IF IsOwner(owner) THEN NoError ELSE "NotOwner"
      [] check = "Payload" -> PayloadError(input)

RECURSIVE FirstProposeError(_, _, _)
FirstProposeError(checks, owner, input) ==
    IF checks = <<>> THEN NoError
    ELSE IF ProposeCheck(Head(checks), owner, input) # NoError
         THEN ProposeCheck(Head(checks), owner, input)
         ELSE FirstProposeError(Tail(checks), owner, input)

ProposeError(owner, input) == FirstProposeError(ProposeChecks, owner, input)

InvokeChecks == <<"NotOwner", "InvalidFunctionName", "AddressNotExecutable">>

InvokeCheck(check, caller, target, fn_name) ==
    CASE check = "NotOwner" ->
            IF IsOwner(caller) THEN NoError ELSE "NotOwner"
      [] check = "InvalidFunctionName" ->
            IF fn_name = "" THEN "InvalidFunctionName" ELSE NoError
      [] check = "AddressNotExecutable" ->
            IF target.executable THEN NoError ELSE "AddressNotExecutable"

RECURSIVE FirstInvokeError(_, _, _, _)
FirstInvokeError(checks, caller, target, fn_name) ==
    IF checks = <<>> THEN NoError
    ELSE IF InvokeCheck(Head(checks), caller, target, fn_name) # NoError
         THEN InvokeCheck(Head(checks), caller, target, fn_name)
         ELSE FirstInvokeError(Tail(checks), caller, target, fn_name)

InvokeEntryError(caller, target, fn_name) ==
    FirstInvokeError(InvokeChecks, caller, target, fn_name)

(***************************************************************************)
(* Proposal records and the inputs of propose.                             *)
(***************************************************************************)
ProposalInputs ==
    {[tag |-> "Config", config |-> c] : c \in ConfigInputs}
        \cup {[tag |-> "Upgrade", hash |-> h] : h \in UpgradeHashes}
        \cup {[tag |-> "Invoke", address |-> t, fn_name |-> "transfer"] : t \in Targets}

NoVotes == [a \in {} |-> "Yes"]

NewProposal(id, caller, input, votes) ==
    [id |-> id, caller |-> caller, proposal_type |-> input, status |-> "Pending",
     votes |-> votes, created_epoch |-> epoch, created_at |-> now, error |-> NoError]

RecordVote(votes, owner, vote) ==
    [a \in DOMAIN votes \cup {owner} |-> IF a = owner THEN vote ELSE votes[a]]

Store(id, p) ==
    [i \in DOMAIN proposals \cup {id} |-> IF i = id THEN p ELSE proposals[i]]

(***************************************************************************)
(* Executor: the effect of a just-approved proposal.  The result is the    *)
(* proposal record, the config and epoch after the effect, and whether the *)
(* external call was made.                                                 *)
(***************************************************************************)
Outcome(p, c, e, called) == [prop |-> p, config |-> c, epoch |-> e, called |-> called]

\* Variants of the config effect: the payload is not installed; the epoch is
\* not bumped.
ExecuteConfigKeepsConfig(p) ==
    Outcome([p EXCEPT !.status = "Executed"], config, epoch + 1, FALSE)

ExecuteConfigNoBump(p) ==
    Outcome([p EXCEPT !.status = "Executed"], p.proposal_type.config, epoch, FALSE)

ExecuteConfig(p) ==
    IF ConfigError(p.proposal_type.config) = NoError
    THEN Outcome([p EXCEPT !.status = "Executed"], p.proposal_type.config, epoch + 1, FALSE)
    ELSE Outcome([p EXCEPT !.error = ConfigError(p.proposal_type.config)], config, epoch, FALSE)

\* Variant of the upgrade effect that leaves the pending proposals valid.
ExecuteUpgradeNoInvalidate(p) ==
    Outcome([p EXCEPT !.status = "Executed"], config, epoch, FALSE)

ExecuteUpgrade(p) ==
    Outcome([p EXCEPT !.status = "Executed"], config, epoch + 1, FALSE)

ExecuteInvoke(p, ok) ==
    IF ok
    THEN Outcome([p EXCEPT !.status = "Executed"], config, epoch, TRUE)
    ELSE Outcome([p EXCEPT !.error = "InvokeError"], config, epoch, TRUE)

Execute(p, ok) ==
    CASE p.proposal_type.tag = "Config" -> ExecuteConfig(p)
      [] p.proposal_type.tag = "Upgrade" -> ExecuteUpgrade(p)
      [] p.proposal_type.tag = "Invoke" -> ExecuteInvoke(p, ok)

(***************************************************************************)
(* The decision after a vote is recorded, with inline execution.           *)
(***************************************************************************)
\* Variant of the decision that marks the proposal Approved and leaves the
\* execution to a later call.
SettleDefersExecution(p, ok) ==
    CASE Decide(p.votes, config) = "Approved" ->
            Outcome([p EXCEPT !.status = "Approved"], config, epoch, FALSE)
      [] Decide(p.votes, config) = "Rejected" ->
            Outcome([p EXCEPT !.status = "Rejected"], config, epoch, FALSE)
      [] OTHER -> Outcome(p, config, epoch, FALSE)

Settle(p, ok) ==
    CASE Decide(p.votes, config) = "Approved" ->
            Execute([p EXCEPT !.status = "Approved"], ok)
      [] Decide(p.votes, config) = "Rejected" ->
            Outcome([p EXCEPT !.status = "Rejected"], config, epoch, FALSE)
      [] OTHER -> Outcome(p, config, epoch, FALSE)

Commit(id, out) ==
    /\ proposals' = Store(id, out.prop)
    /\ config' = out.config
    /\ epoch' = out.epoch
    /\ calls' = IF out.called THEN [calls EXCEPT ![id] = @ + 1] ELSE calls

(***************************************************************************)
(* A call that fails returns its error and changes nothing.                *)
(***************************************************************************)
Fail == UNCHANGED <<config, epoch, next_id, proposals, calls, now>>

(***************************************************************************)
(* The host's call_external: its result is only drawn when the call is     *)
(* made, i.e. when the proposal being settled is an approved Invoke.       *)
(***************************************************************************)
ExternalResults(p) ==
    IF Decide(p.votes, config) = "Approved" /\ p.proposal_type.tag = "Invoke"
    THEN BOOLEAN
    ELSE {TRUE}

(***************************************************************************)
(* Entry points.                                                           *)
(***************************************************************************)
Ids == FirstId..(MaxProposals + 1)

Ballots == Len(config.owners) * (next_id - FirstId + 1)

(***************************************************************************)
(* The TypeScript client (index.ts): the state of one submitTransaction or *)
(* deployVoltaContract call, and what the RPC server reports for the       *)
(* transaction it sent.                                                    *)
(***************************************************************************)
ClientFns == {"submitTransaction", "deployVoltaContract"}

\* The contract methods VoltaClient submits; deployVoltaContract creates the
\* contract.
Operations == {"propose", "vote", "invoke", "revoke_proposal"}

\* CONTRACT_ERRORS: the messages of the contract error codes the client knows.
CONTRACT_ERRORS ==
    [code \in {1, 2, 5, 6, 8, 9, 10, 11, 12, 14, 15, 19, 22, 23, 24} |->
        CASE code = 1 -> "Contract has already been initialized"
          [] code = 2 -> "Contract has not been initialized"
          [] code = 5 -> "Invalid owner configuration (need at least 2 unique owners)"
          [] code = 6 -> "Invalid threshold (must be between 2 and owner count)"
          [] code = 8 -> "You are not an owner of this contract"
          [] code = 9 -> "Proposal not found or expired"
          [] code = 10 -> "You have already voted on this proposal"
          [] code = 11 -> "Proposal is no longer pending"
          [] code = 12 -> "Contract invocation failed"
          [] code = 14 -> "No changes in proposed configuration"
          [] code = 15 -> "Only the proposal creator can perform this action"
          [] code = 19 -> "Use invoke() for contract calls, not propose()"
          [] code = 22 -> "Invalid upgrade hash"
          [] code = 23 -> "Target address is not a contract"
          [] code = 24 -> "Function name cannot be empty"]

\* What simulateTransaction answers: success, or an error whose text does or
\* does not hold a contract error code (a known one, or one not in the table).
SimulationErrors ==
    {[status |-> "error", contract |-> TRUE, code |-> c] : c \in {9, 10, 11, 13}}
        \cup {[status |-> "error", contract |-> FALSE, code |-> 0]}

Simulations == {[status |-> "success", contract |-> FALSE, code |-> 0]} \cup SimulationErrors

\* rpc.Api.isSimulationError
isSimulationError(simulation) == simulation.status = "error"

NoSimulation == [status |-> "none", contract |-> FALSE, code |-> 0]

SendStatuses == {"PENDING", "DUPLICATE", "TRY_AGAIN_LATER", "ERROR"}

TxStatuses == {"NOT_FOUND", "SUCCESS", "FAILED"}

NoValue == "none"

ClientIdle ==
    [fn |-> NoValue, operation |-> NoValue, pc |-> "idle", simulation |-> NoSimulation,
     response |-> NoValue, result |-> NoValue, error |-> NoValue]

Init ==
    /\ config \in {c \in ConfigInputs : ValidConfig(c)}
    /\ epoch = 0
    /\ next_id = FirstId
    /\ proposals = <<>>
    /\ calls = [id \in Ids |-> 0]
    /\ now = 0
    /\ client = ClientIdle
    /\ network = "NOT_FOUND"

\* Variant of propose that does not advance the id counter.
ProposeReusesId(owner, input) ==
    /\ next_id <= MaxProposals
    /\ Ballots <= MaxBallots
    /\ IF ProposeError(owner, input) # NoError
       THEN Fail
       ELSE /\ proposals' = Store(next_id, NewProposal(next_id, owner, input, NoVotes))
            /\ UNCHANGED <<config, epoch, next_id, calls, now>>

\* Variant of propose that casts the creator's Yes, as invoke does.
ProposeAutoVote(owner, input) ==
    /\ next_id <= MaxProposals
    /\ Ballots <= MaxBallots
    /\ IF ProposeError(owner, input) # NoError
       THEN Fail
       ELSE /\ \E ok \in ExternalResults(NewProposal(next_id, owner, input, RecordVote(NoVotes, owner, "Yes"))) :
                  Commit(next_id, Settle(NewProposal(next_id, owner, input, RecordVote(NoVotes, owner, "Yes")), ok))
            /\ next_id' = next_id + 1
            /\ UNCHANGED now

Propose(owner, input) ==
    /\ next_id <= MaxProposals
    /\ Ballots <= MaxBallots
    /\ IF ProposeError(owner, input) # NoError
       THEN Fail
       ELSE /\ proposals' = Store(next_id, NewProposal(next_id, owner, input, NoVotes))
            /\ next_id' = next_id + 1
            /\ UNCHANGED <<config, epoch, calls, now>>

\* Variant of the invoke proposal without the creator's automatic Yes.
InvokeProposalNoAutoVote(caller, target, fn_name) ==
    NewProposal(next_id, caller,
                [tag |-> "Invoke", address |-> target, fn_name |-> fn_name],
                NoVotes)

InvokeProposal(caller, target, fn_name) ==
    NewProposal(next_id, caller,
                [tag |-> "Invoke", address |-> target, fn_name |-> fn_name],
                RecordVote(NoVotes, caller, "Yes"))

Invoke(caller, target, fn_name) ==
    /\ next_id <= MaxProposals
    /\ Ballots <= MaxBallots
    /\ IF InvokeEntryError(caller, target, fn_name) # NoError
       THEN Fail
       ELSE /\ \E ok \in ExternalResults(InvokeProposal(caller, target, fn_name)) :
                  Commit(next_id, Settle(InvokeProposal(caller, target, fn_name), ok))
            /\ next_id' = next_id + 1
            /\ UNCHANGED now

Voted(id, owner, vote) ==
    [proposals[id] EXCEPT !.votes = RecordVote(@, owner, vote)]

\* Variant of vote that records the vote before it reports its error.
VoteRecordsThenFails(owner, id, vote) ==
    IF VoteError(owner, id) # NoError
    THEN IF id \in DOMAIN proposals
         THEN /\ proposals' = Store(id, Voted(id, owner, vote))
              /\ UNCHANGED <<config, epoch, next_id, calls, now>>
         ELSE Fail
    ELSE /\ \E ok \in ExternalResults(Voted(id, owner, vote)) :
               Commit(id, Settle(Voted(id, owner, vote), ok))
         /\ UNCHANGED <<next_id, now>>

Vote(owner, id, vote) ==
    IF VoteError(owner, id) # NoError
    THEN Fail
    ELSE /\ \E ok \in ExternalResults(Voted(id, owner, vote)) :
               Commit(id, Settle(Voted(id, owner, vote), ok))
         /\ UNCHANGED <<next_id, now>>

RevokeProposal(caller, id) ==
    IF RevokeError(caller, id) # NoError
    THEN Fail
    ELSE /\ proposals' = Store(id, [proposals[id] EXCEPT !.status = "Revoked"])
         /\ UNCHANGED <<config, epoch, next_id, calls, now>>

GetProposal(id) ==
    /\ Resolve(id) \in {NoError, "ProposalNotFound", "ProposalNotPending"}
    /\ UNCHANGED <<config, epoch, next_id, proposals, calls, now>>

Tick(d) ==
    /\ now + d <= WEEK_IN_LEDGERS + MaxDrift
    /\ now' = now + d
    /\ UNCHANGED <<config, epoch, next_id, proposals, calls>>

\* A contract call leaves the client process where it is.
ClientWaits == UNCHANGED <<client, network>>

Next ==
    \/ \E owner \in Addr, input \in ProposalInputs : Propose(owner, input) /\ ClientWaits
    \/ \E caller \in Addr, target \in Targets, fn_name \in FnNames :
          Invoke(caller, target, fn_name) /\ ClientWaits
    \/ \E owner \in Addr, id \in Ids, vote \in VoteType : Vote(owner, id, vote) /\ ClientWaits
    \/ \E caller \in Addr, id \in Ids : RevokeProposal(caller, id) /\ ClientWaits
    \/ \E id \in Ids : GetProposal(id) /\ ClientWaits
    \/ \E d \in {WEEK_IN_LEDGERS, WEEK_IN_LEDGERS + 1} : Tick(d) /\ ClientWaits

Spec == Init /\ [][Next]_vars

(***************************************************************************)
(* The client's submitTransaction and deployVoltaContract, one action per  *)
(* statement; the position is client.pc.  The contract is left alone: what *)
(* the transaction does on chain is the contract's step above.             *)
(***************************************************************************)
contract == <<config, epoch, next_id, proposals, calls, now>>

Throw(message) == client' = [client EXCEPT !.pc = "thrown", !.error = message]

Goto(pc) == client' = [client EXCEPT !.pc = pc]

\* parseSimulationError: the table's message for a known contract error code,
\* a generic one for an unknown code, and the raw error otherwise.
parseSimulationError(simulation) ==
    IF simulation.contract
    THEN IF simulation.code \in DOMAIN CONTRACT_ERRORS
         THEN CONTRACT_ERRORS[simulation.code]
         ELSE "Contract error #code"
    ELSE "Simulation failed: error"

SubmitTransaction(operation) ==
    /\ client.pc = "idle"
    /\ client' = [client EXCEPT !.fn = "submitTransaction", !.operation = operation,
                                !.pc = "getAccount"]
    /\ UNCHANGED <<contract, network>>

DeployVoltaContract ==
    /\ client.pc = "idle"
    /\ client' = [client EXCEPT !.fn = "deployVoltaContract", !.operation = "create_contract",
                                !.pc = "getAccount"]
    /\ UNCHANGED <<contract, network>>

\* server.getAccount: rejects when the account does not exist on the network.
GetAccount(found) ==
    /\ client.pc = "getAccount"
    /\ IF found THEN Goto("build") ELSE Throw("Account not found")
    /\ UNCHANGED <<contract, network>>

Build ==
    /\ client.pc = "build"
    /\ Goto("simulateTransaction")
    /\ UNCHANGED <<contract, network>>

\* Variant of the simulation step that goes on after a simulation error.
SimulateTransactionUnchecked(simulation) ==
    /\ client.pc = "simulateTransaction"
    /\ client' = [client EXCEPT !.simulation = simulation, !.pc = "assembleTransaction"]
    /\ UNCHANGED <<contract, network>>

SimulateTransaction(simulation) ==
    /\ client.pc = "simulateTransaction"
    /\ IF isSimulationError(simulation)
       THEN client' = [client EXCEPT
                          !.simulation = simulation,
                          !.pc = "thrown",
                          !.error = IF client.fn = "submitTransaction"
                                    THEN parseSimulationError(simulation)
                                    ELSE "Deployment simulation failed: error"]
       ELSE client' = [client EXCEPT !.simulation = simulation, !.pc = "assembleTransaction"]
    /\ UNCHANGED <<contract, network>>

AssembleTransaction ==
    /\ client.pc = "assembleTransaction"
    /\ Goto("sign")
    /\ UNCHANGED <<contract, network>>

Sign ==
    /\ client.pc = "sign"
    /\ Goto("sendTransaction")
    /\ UNCHANGED <<contract, network>>

SendTransaction(status) ==
    /\ client.pc = "sendTransaction"
    /\ IF status = "ERROR"
       THEN client' = [client EXCEPT
                          !.response = status,
                          !.pc = "thrown",
                          !.error = IF client.fn = "submitTransaction"
                                    THEN "Transaction submission failed: errorResult"
                                    ELSE "Deployment failed: errorResult"]
       ELSE client' = [client EXCEPT !.response = status, !.pc = "getTransaction"]
    /\ UNCHANGED <<contract, network>>

\* server.getTransaction: the status the server reports now.
GetTransaction ==
    /\ client.pc = "getTransaction"
    /\ client' = [client EXCEPT !.result = network, !.pc = "while"]
    /\ UNCHANGED <<contract, network>>

\* Variant of the loop test that gives up on the first NOT_FOUND.
WhileGivesUp ==
    /\ client.pc = "while"
    /\ IF client.result = "SUCCESS" THEN Goto("returned") ELSE Throw("Transaction execution failed")
    /\ UNCHANGED <<contract, network>>

\* The test of the polling loop and, once it is left, the FAILED test and the
\* return.
While ==
    /\ client.pc = "while"
    /\ IF client.result = "NOT_FOUND" THEN Goto("setTimeout")
       ELSE IF client.result = "FAILED"
            THEN Throw(IF client.fn = "submitTransaction"
                       THEN "Transaction execution failed"
                       ELSE "Deployment transaction failed")
            ELSE Goto("returned")
    /\ UNCHANGED <<contract, network>>

\* The one-second wait inside the loop.
SetTimeout ==
    /\ client.pc = "setTimeout"
    /\ Goto("getTransaction")
    /\ UNCHANGED <<contract, network>>

\* The network closes a ledger with the accepted transaction in it.
Include(status) ==
    /\ network = "NOT_FOUND"
    /\ client.response \in {"PENDING", "DUPLICATE"}
    /\ network' = status
    /\ UNCHANGED <<contract, client>>

\* The statements of the running call.
Run ==
    \/ \E found \in BOOLEAN : GetAccount(found)
    \/ Build
    \/ \E simulation \in Simulations : SimulateTransaction(simulation)
    \/ AssembleTransaction
    \/ Sign
    \/ \E status \in SendStatuses : SendTransaction(status)
    \/ GetTransaction
    \/ While
    \/ SetTimeout

ClientNext ==
    \/ \E operation \in Operations : SubmitTransaction(operation)
    \/ DeployVoltaContract
    \/ Run
    \/ \E status \in {"SUCCESS", "FAILED"} : Include(status)

\* The deployment of main: two owners, threshold 2.
ClientInit == Init /\ config = [owners |-> <<1, 2>>, threshold |-> 2]

SpecClient == ClientInit /\ [][ClientNext]_vars

\* The JavaScript runtime resumes every await and fires every timer.
SpecClientLive == ClientInit /\ [][ClientNext]_vars /\ WF_vars(Run)

(***************************************************************************)
(* Vocabulary of the properties.                                           *)
(***************************************************************************)
core == <<config, epoch, next_id, proposals, calls>>

Owners == {config.owners[i] : i \in DOMAIN config.owners}

Stored == DOMAIN proposals

YesVotes(p) == Cardinality({a \in DOMAIN p.votes : p.votes[a] = "Yes"})

Approved(p) == p.status \in {"Approved", "Executed"}

Accessible(p) == now <= p.created_at + WEEK_IN_LEDGERS /\ p.created_epoch = epoch

\* The proposal id is approved (and its effect applied) in this step.
ApprovedNow(id) ==
    /\ id \in DOMAIN proposals'
    /\ Approved(proposals'[id])
    /\ (id \in Stored => ~Approved(proposals[id]))

ExecutedKind(tags) ==
    \E id \in Stored :
        proposals[id].status = "Executed" /\ proposals[id].proposal_type.tag \in tags

(***************************************************************************)
(* C1.  In every reachable state the live Config has at least 2 owners, no *)
(* duplicate owners, and 2 <= threshold <= |owners|.                       *)
(***************************************************************************)
C1_ConfigValid ==
    /\ Len(config.owners) >= 2
    /\ Cardinality(Owners) = Len(config.owners)
    /\ 2 <= config.threshold
    /\ config.threshold <= Len(config.owners)

\* A Config proposal has executed and replaced the initial config.
C1_Witness == epoch > 0 /\ ExecutedKind({"Config"})

(***************************************************************************)
(* C2.  No execution without quorum: in every step in which a proposal     *)
(* becomes Approved or Executed, the Yes votes recorded on it after the    *)
(* step are at least the threshold of the Config the step was taken under; *)
(* the config, the epoch and the external calls change only in such a      *)
(* step; and the Yes count of an Approved or Executed proposal never       *)
(* changes afterwards.                                                     *)
(***************************************************************************)
C2_NoExecutionWithoutQuorum ==
    [][/\ \A id \in Ids :
              ApprovedNow(id) => YesVotes(proposals'[id]) >= config.threshold
       /\ (config' # config \/ epoch' # epoch \/ calls' # calls)
              => \E id \in Ids : ApprovedNow(id)
       /\ \A id \in Stored :
              Approved(proposals[id])
                  => YesVotes(proposals'[id]) = YesVotes(proposals[id])]_vars

\* An Invoke proposal executed, with its one external call, on two Yes votes.
C2_Witness ==
    \E id \in Stored :
        /\ proposals[id].status = "Executed"
        /\ proposals[id].proposal_type.tag = "Invoke"
        /\ calls[id] = 1
        /\ YesVotes(proposals[id]) = 2

(***************************************************************************)
(* C3.  One vote per owner per proposal.  As amended: a vote call by an    *)
(* owner who already has an entry in the proposal's votes map (the         *)
(* auto-cast Yes of an invoke creator included) fails and leaves the       *)
(* stored state unchanged; the error is VoterAlreadyVoted while the        *)
(* proposal is accessible and Pending (an earlier check reports            *)
(* ProposalNotFound or ProposalNotPending otherwise).  An entry once       *)
(* recorded never changes its value and is never removed.                  *)
(***************************************************************************)
C3_RepeatRejected ==
    \A id \in Stored : \A a \in DOMAIN proposals[id].votes :
        /\ VoteError(a, id) # NoError
        /\ (a \in Owners /\ Accessible(proposals[id]) /\ proposals[id].status = "Pending")
               => VoteError(a, id) = "VoterAlreadyVoted"

C3_VotesImmutable ==
    UNCHANGED core \/
    \A id \in Stored : \A a \in DOMAIN proposals[id].votes :
        /\ id \in DOMAIN proposals'
        /\ a \in DOMAIN proposals'[id].votes
        /\ proposals'[id].votes[a] = proposals[id].votes[a]
        /\ \A vote \in VoteType : ~Vote(a, id, vote)

C3_OneVotePerOwner == []C3_RepeatRejected /\ [][C3_VotesImmutable]_vars

\* The claim as written: the repeated vote always reports VoterAlreadyVoted.
C3_Original ==
    \A id \in Stored : \A a \in DOMAIN proposals[id].votes \cap Owners :
        VoteError(a, id) = "VoterAlreadyVoted"

\* An Invoke proposal, still Pending, holding its creator's Yes and a second vote.
C3_Witness ==
    \E id \in Stored :
        /\ proposals[id].proposal_type.tag = "Invoke"
        /\ proposals[id].status = "Pending"
        /\ Accessible(proposals[id])
        /\ proposals[id].caller \in DOMAIN proposals[id].votes
        /\ Cardinality(DOMAIN proposals[id].votes) = 2

(***************************************************************************)
(* C4.  Status transitions.  Over one call a proposal's status changes     *)
(* only along Pending->Approved, Approved->Executed, Pending->Rejected,    *)
(* Pending->Revoked (Pending->Approved->Executed happens inside one call), *)
(* and once it is Rejected, Executed or Revoked neither its status nor its *)
(* votes map changes again.                                                *)
(***************************************************************************)
C4_Allowed ==
    {<<"Pending", "Approved">>, <<"Approved", "Executed">>, <<"Pending", "Executed">>,
     <<"Pending", "Rejected">>, <<"Pending", "Revoked">>}

C4_Step ==
    /\ \A id \in Stored :
          /\ id \in DOMAIN proposals'
          /\ proposals'[id].status # proposals[id].status
                => <<proposals[id].status, proposals'[id].status>> \in C4_Allowed
          /\ proposals[id].status \in {"Rejected", "Executed", "Revoked"}
                => /\ proposals'[id].status = proposals[id].status
                   /\ proposals'[id].votes = proposals[id].votes
    /\ \A id \in DOMAIN proposals' \ Stored :
          proposals'[id].status \in {"Pending", "Approved", "Executed", "Rejected"}

C4_StatusTransitions == [][C4_Step]_vars

\* A Rejected and a Revoked proposal side by side, after further calls.
C4_Witness ==
    \E i, j \in Stored :
        /\ proposals[i].status = "Rejected"
        /\ proposals[j].status = "Revoked"

(***************************************************************************)
(* C5.  Approval monotonicity: the step in which a vote brings a           *)
(* proposal's Yes count to >= threshold leaves it Approved or Executed,    *)
(* and a proposal that is Approved or Executed stays so in every step.     *)
(***************************************************************************)
C5_Step ==
    /\ \A id \in DOMAIN proposals' :
          (/\ YesVotes(proposals'[id]) >= config.threshold
           /\ (id \in Stored => YesVotes(proposals[id]) < config.threshold))
              => Approved(proposals'[id])
    /\ \A id \in Stored :
          Approved(proposals[id]) => id \in DOMAIN proposals' /\ Approved(proposals'[id])

C5_ApprovalMonotone == [][C5_Step]_vars

\* An approved proposal whose external call failed: it stays Approved.
C5_Witness ==
    \E id \in Stored :
        /\ proposals[id].status = "Approved"
        /\ YesVotes(proposals[id]) >= 2
        /\ now > 0

(***************************************************************************)
(* C6.  Rejection soundness.  As amended: a proposal that is not already   *)
(* Approved or Executed and has yes + remaining < threshold (remaining =   *)
(* owners who have not voted on it, threshold of the live config) is       *)
(* Rejected, Revoked or invalidated by an epoch change, and such a         *)
(* proposal is never changed again: its Yes count stays and it is never    *)
(* Approved or Executed.  (An executed Config proposal that raised the     *)
(* threshold can have yes + remaining below the new threshold.)            *)
(***************************************************************************)
C6_Remaining(p) == Cardinality(Owners \ DOMAIN p.votes)

C6_Dead(p) == p.status \in {"Rejected", "Revoked"} \/ p.created_epoch < epoch

C6_Unreachable ==
    \A id \in Stored :
        (/\ ~Approved(proposals[id])
         /\ YesVotes(proposals[id]) + C6_Remaining(proposals[id]) < config.threshold)
            => C6_Dead(proposals[id])

C6_Step ==
    /\ epoch' >= epoch
    /\ \A id \in Stored :
          C6_Dead(proposals[id])
              => id \in DOMAIN proposals' /\ proposals'[id] = proposals[id]

C7_Invalid(p) == p.status = "Pending" /\ p.created_epoch < epoch

C7_Refused == {"ProposalNotPending", "ProposalNotFound"}

C7_Inaccessible ==
    \A id \in Stored :
        C7_Invalid(proposals[id])
            => /\ Resolve(id) \in C7_Refused
               /\ \A a \in Addr : VoteError(a, id) \in C7_Refused
               /\ \A a \in Addr : RevokeError(a, id) \in C7_Refused

C7_Step ==
    /\ epoch' >= epoch
    /\ \A j \in Stored :
          (/\ proposals[j].status = "Pending"
           /\ proposals'[j].status = "Executed"
           /\ proposals[j].proposal_type.tag \in {"Config", "Upgrade"})
              => \A id \in Stored \ {j} :
                     proposals[id].status = "Pending"
                         => proposals'[id].created_epoch < epoch'
    /\ \A id \in Stored :
          C7_Invalid(proposals[id])
              => proposals'[id] = proposals[id] /\ calls'[id] = calls[id]

C7_EpochInvalidation == []C7_Inaccessible /\ [][C7_Step]_vars

\* An executed Upgrade next to a Pending proposal that already held a vote.
C7_Witness ==
    \E id, j \in Stored :
        /\ proposals[j].status = "Executed"
        /\ proposals[j].proposal_type.tag = "Upgrade"
        /\ C7_Invalid(proposals[id])
        /\ DOMAIN proposals[id].votes # {}

(***************************************************************************)
(* C8.  Revoke only by creator.  As amended: revoke_proposal by a caller   *)
(* other than the creator always fails and changes nothing, with NotCaller *)
(* when the proposal is accessible and Pending (ProposalNotFound or        *)
(* ProposalNotPending are reported first otherwise); the creator's revoke  *)
(* of an accessible Pending proposal sets status Revoked; a second revoke  *)
(* by the creator fails, with ProposalNotPending while the proposal is     *)
(* accessible; a Revoked proposal accepts no vote and is never changed or  *)
(* executed.                                                               *)
(***************************************************************************)
C8_Errors ==
    \A id \in Stored : \A c \in Addr :
        LET p == proposals[id] IN
        /\ (c # p.caller) => RevokeError(c, id) # NoError
        /\ (c # p.caller /\ Accessible(p) /\ p.status = "Pending")
               => RevokeError(c, id) = "NotCaller"
        /\ (c = p.caller /\ Accessible(p) /\ p.status = "Pending")
               => RevokeError(c, id) = NoError
        /\ (p.status = "Revoked")
               => /\ RevokeError(c, id) # NoError
                  /\ VoteError(c, id) # NoError
                  /\ Accessible(p) => RevokeError(p.caller, id) = "ProposalNotPending"

C8_Step ==
    \A id \in Stored :
        LET p == proposals[id] IN
        /\ (p.status = "Pending" /\ Accessible(p) /\ RevokeProposal(p.caller, id))
               => proposals'[id].status = "Revoked"
        /\ (p.status # "Revoked" /\ proposals'[id].status = "Revoked")
               => RevokeProposal(p.caller, id)
        /\ (p.status = "Revoked")
               => proposals'[id] = p /\ calls'[id] = calls[id]

C8_RevokeOnlyByCreator == []C8_Errors /\ [][C8_Step]_vars

\* The claim as written: a non-creator's revoke always reports NotCaller.
C8_Original ==
    \A id \in Stored : \A c \in Addr \ {proposals[id].caller} :
        RevokeError(c, id) = "NotCaller"

\* A proposal revoked by its creator after it had received a vote.
C8_Witness ==
    \E id \in Stored :
        /\ proposals[id].status = "Revoked"
        /\ Accessible(proposals[id])
        /\ DOMAIN proposals[id].votes # {}

(***************************************************************************)
(* C9.  A propose, invoke, vote or revoke_proposal call that fails with a  *)
(* validation error leaves the Config, the epoch, the id counter and every *)
(* stored proposal (and the external calls made) unchanged.                *)
(***************************************************************************)
C9_Step ==
    UNCHANGED core \/
    /\ \A owner \in Addr, input \in ProposalInputs :
          ~Propose(owner, input) \/ ProposeError(owner, input) = NoError
    /\ \A caller \in Addr, target \in Targets, fn_name \in FnNames :
          ~Invoke(caller, target, fn_name)
              \/ InvokeEntryError(caller, target, fn_name) = NoError
    /\ \A owner \in Addr, id \in Ids, vote \in VoteType :
          ~Vote(owner, id, vote) \/ VoteError(owner, id) = NoError
    /\ \A caller \in Addr, id \in Ids :
          ~RevokeProposal(caller, id) \/ RevokeError(caller, id) = NoError

C9_FailedCallChangesNothing == [][C9_Step]_vars

\* A state in which calls of each entry point fail: a stored, voted proposal
\* that is no longer Pending, under a config with a non-owner address.
C9_Witness ==
    /\ Addr \ Owners # {}
    /\ \E id \in Stored :
          /\ proposals[id].status = "Rejected"
          /\ \E a \in Owners : VoteError(a, id) = "ProposalNotPending"
          /\ RevokeError(proposals[id].caller, id) = "ProposalNotPending"

(***************************************************************************)
(* C10.  Only owners act.  As amended: propose, invoke and vote called     *)
(* with an address outside the current owner set always fail -- with       *)
(* NotOwner, except that propose with an Invoke payload reports            *)
(* InvokeNotAllowed and vote on an absent, expired or invalidated proposal *)
(* reports ProposalNotFound or ProposalNotPending first -- so every new    *)
(* proposal's creator and every newly recorded voter is an owner at the    *)
(* time of the call.                                                       *)
(***************************************************************************)
C10_Errors ==
    \A a \in Addr \ Owners :
        /\ \A input \in ProposalInputs :
              /\ ProposeError(a, input) # NoError
              /\ input.tag # "Invoke" => ProposeError(a, input) = "NotOwner"
        /\ \A target \in Targets, fn_name \in FnNames :
              InvokeEntryError(a, target, fn_name) = "NotOwner"
        /\ \A id \in Ids :
              /\ VoteError(a, id) # NoError
              /\ (id \in Stored /\ Accessible(proposals[id]))
                    => VoteError(a, id) = "NotOwner"

C10_Step ==
    \A id \in DOMAIN proposals' :
        /\ id \notin Stored => proposals'[id].caller \in Owners
        /\ \A a \in DOMAIN proposals'[id].votes :
              (id \notin Stored \/ a \notin DOMAIN proposals[id].votes) => a \in Owners

C10_OnlyOwnersAct == []C10_Errors /\ [][C10_Step]_vars

\* The claim as written: every such call reports NotOwner.
C10_Original ==
    \A a \in Addr \ Owners :
        /\ \A input \in ProposalInputs : ProposeError(a, input) = "NotOwner"
        /\ \A target \in Targets, fn_name \in FnNames :
              InvokeEntryError(a, target, fn_name) = "NotOwner"
        /\ \A id \in Ids : VoteError(a, id) = "NotOwner"

\* A non-owner address exists while a Pending proposal is open and voted on.
C10_Witness ==
    /\ Addr \ Owners # {}
    /\ \E id \in Stored :
          /\ proposals[id].status = "Pending"
          /\ Accessible(proposals[id])
          /\ DOMAIN proposals[id].votes # {}

\* A vote is recorded on proposal id in this step (on creation for invoke).
VoteRecorded(id) ==
    /\ id \in DOMAIN proposals'
    /\ id \in Stored => proposals'[id].votes # proposals[id].votes
    /\ id \notin Stored => proposals'[id].votes # NoVotes

NotVoted(p) == Cardinality(Owners \ DOMAIN p.votes)

(***************************************************************************)
(* C11.  A Config proposal created with propose is Pending at creation and *)
(* after every vote that leaves its Yes count below the threshold with     *)
(* approval still reachable; the vote that raises the Yes count to the     *)
(* threshold leaves it Executed, and in that same step the live Config     *)
(* becomes exactly the proposal's owners and threshold.                    *)
(***************************************************************************)
C11_Step ==
    \A id \in DOMAIN proposals' :
        LET q == proposals'[id] IN
        q.proposal_type.tag = "Config" =>
            /\ id \notin Stored => q.status = "Pending" /\ q.votes = NoVotes /\ config' = config
            /\ (VoteRecorded(id) /\ YesVotes(q) >= config.threshold)
                  => q.status = "Executed" /\ config' = q.proposal_type.config
            /\ (/\ VoteRecorded(id)
                /\ YesVotes(q) < config.threshold
                /\ YesVotes(q) + NotVoted(q) >= config.threshold)
                  => q.status = "Pending" /\ config' = config

C11_ConfigProposalExecutes == [][C11_Step]_vars

\* 2-of-3: a Config proposal executed on its second Yes and now the live config.
C11_Witness ==
    \E id \in Stored :
        /\ proposals[id].proposal_type.tag = "Config"
        /\ proposals[id].status = "Executed"
        /\ YesVotes(proposals[id]) = 2
        /\ Cardinality(DOMAIN proposals[id].votes) = 2
        /\ config = proposals[id].proposal_type.config
        /\ Len(config.owners) # 3

(***************************************************************************)
(* C12.  After each recorded vote the status is Approved/Executed if       *)
(* yes >= threshold, else Rejected if yes + remaining < threshold          *)
(* (remaining = owners who have not voted), else Pending.  With 3 owners   *)
(* and threshold 2 the vote sets {2 No}, {1 Yes, 1 No, 1 Abstain} and      *)
(* {1 Yes, 2 Abstain} are Rejected and {2 Yes} is Approved/Executed, in    *)
(* whatever order the votes were cast.                                     *)
(***************************************************************************)
C12_Step ==
    \A id \in DOMAIN proposals' :
        LET q == proposals'[id] IN
        VoteRecorded(id) =>
            IF YesVotes(q) >= config.threshold THEN Approved(q)
            ELSE IF YesVotes(q) + NotVoted(q) < config.threshold THEN q.status = "Rejected"
            ELSE q.status = "Pending"

C12_Tally(p) == <<CountVotes(p.votes, "Yes"), CountVotes(p.votes, "No"), CountVotes(p.votes, "Abstain")>>

C12_Examples ==
    (Len(config.owners) = 3 /\ config.threshold = 2) =>
        \A id \in Stored :
            proposals[id].created_epoch = epoch =>
                /\ C12_Tally(proposals[id]) \in {<<0, 2, 0>>, <<1, 1, 1>>, <<1, 0, 2>>}
                      => proposals[id].status = "Rejected"
                /\ C12_Tally(proposals[id]) = <<2, 0, 0>> => Approved(proposals[id])

C12_DecisionOrder == []C12_Examples /\ [][C12_Step]_vars

\* 3 owners, threshold 2: one Yes and two Abstain, Rejected.
C12_Witness ==
    /\ Len(config.owners) = 3 /\ config.threshold = 2
    /\ \E id \in Stored :
          /\ proposals[id].created_epoch = epoch
          /\ C12_Tally(proposals[id]) = <<1, 0, 2>>
          /\ proposals[id].status = "Rejected"

(***************************************************************************)
(* C13.  A successful invoke stores an Invoke proposal whose votes map is  *)
(* exactly the creator's Yes; the external call is made exactly in the     *)
(* step of the vote that brings the Yes count to the threshold, i.e. after *)
(* threshold - 1 further Yes votes of other owners, and not before.        *)
(***************************************************************************)
C13_IsInvoke(p) == p.proposal_type.tag = "Invoke"

C13_Step ==
    \A id \in Ids :
        /\ (id \in DOMAIN proposals' \ Stored /\ C13_IsInvoke(proposals'[id]))
              => /\ DOMAIN proposals'[id].votes = {proposals'[id].caller}
                 /\ proposals'[id].votes[proposals'[id].caller] = "Yes"
                 /\ proposals'[id].caller \in Owners
                 /\ proposals'[id].status = "Pending"
                 /\ calls'[id] = calls[id]
        /\ (calls'[id] # calls[id])
              => /\ calls'[id] = calls[id] + 1
                 /\ id \in Stored
                 /\ C13_IsInvoke(proposals[id])
                 /\ VoteRecorded(id)
                 /\ YesVotes(proposals[id]) = config.threshold - 1
                 /\ YesVotes(proposals'[id]) = config.threshold
                 /\ Cardinality({a \in DOMAIN proposals'[id].votes \ {proposals[id].caller} :
                                    proposals'[id].votes[a] = "Yes"}) = config.threshold - 1
        /\ (/\ id \in Stored
            /\ C13_IsInvoke(proposals[id])
            /\ VoteRecorded(id)
            /\ YesVotes(proposals'[id]) >= config.threshold)
              => calls'[id] = calls[id] + 1

C13_CallOnlyWhenApproved ==
    \A id \in Ids :
        /\ calls[id] \in {0, 1}
        /\ calls[id] = 1 <=> (id \in Stored /\ C13_IsInvoke(proposals[id])
                                            /\ Approved(proposals[id]))

C13_InvokeAutoVote == []C13_CallOnlyWhenApproved /\ [][C13_Step]_vars

\* 2-of-3: invoke by one owner, a No, then a second owner's Yes makes the call.
C13_Witness ==
    /\ Len(config.owners) = 3 /\ config.threshold = 2
    /\ \E id \in Stored :
          /\ C13_IsInvoke(proposals[id])
          /\ proposals[id].votes[proposals[id].caller] = "Yes"
          /\ C12_Tally(proposals[id]) = <<2, 1, 0>>
          /\ calls[id] = 1

(***************************************************************************)
(* C14.  propose with an Invoke payload fails with InvokeNotAllowed for    *)
(* every caller, owner or not, and stores nothing; every stored Invoke     *)
(* proposal was created by a step of the invoke entry point.               *)
(***************************************************************************)
C14_InvokePayloads == {input \in ProposalInputs : input.tag = "Invoke"}

C14_Refused ==
    \A a \in Addr, input \in C14_InvokePayloads :
        ProposeError(a, input) = "InvokeNotAllowed"

C14_Step ==
    /\ UNCHANGED core \/
          \A a \in Addr, input \in C14_InvokePayloads : ~Propose(a, input)
    /\ \A id \in DOMAIN proposals' \ Stored :
          C13_IsInvoke(proposals'[id])
              => /\ \E caller \in Addr, target \in Targets, fn_name \in FnNames :
                        Invoke(caller, target, fn_name)
                 /\ \A a \in Addr, input \in ProposalInputs : ~Propose(a, input)

C14_InvokeOnlyViaInvoke == []C14_Refused /\ [][C14_Step]_vars

\* An Invoke proposal is stored while propose, for owners and the non-owner
\* alike, refuses the Invoke payload.
C14_Witness ==
    /\ Addr \ Owners # {}
    /\ next_id <= MaxProposals
    /\ \E id \in Stored : C13_IsInvoke(proposals[id]) /\ proposals[id].status = "Pending"

\* A new proposal is stored in this step.
Created(id) == id \in DOMAIN proposals' \ Stored

AllZero(hash) == \A i \in DOMAIN hash : hash[i] = 0

AllOnes(hash) == \A i \in DOMAIN hash : hash[i] = 255

(***************************************************************************)
(* C15.  An owner's propose with an Upgrade payload whose 32-byte hash is  *)
(* all-zero or all-one fails with InvalidUpgrade (for any caller the call  *)
(* fails), stores no proposal and consumes no id; an owner's propose with  *)
(* any other hash stores a Pending Upgrade proposal.                       *)
(***************************************************************************)
C15_Upgrades == {input \in ProposalInputs : input.tag = "Upgrade"}

C15_Errors ==
    \A a \in Addr, input \in C15_Upgrades :
        /\ Len(input.hash) = 32
        /\ (AllZero(input.hash) \/ AllOnes(input.hash))
              => /\ ProposeError(a, input) # NoError
                 /\ a \in Owners => ProposeError(a, input) = "InvalidUpgrade"
        /\ (a \in Owners /\ ~AllZero(input.hash) /\ ~AllOnes(input.hash))
              => ProposeError(a, input) = NoError

C15_Step ==
    /\ \A id \in DOMAIN proposals' :
          (Created(id) /\ proposals'[id].proposal_type.tag = "Upgrade")
              => /\ ~AllZero(proposals'[id].proposal_type.hash)
                 /\ ~AllOnes(proposals'[id].proposal_type.hash)
                 /\ proposals'[id].status = "Pending"
                 /\ proposals'[id].caller \in Owners
    /\ UNCHANGED core \/
          \A a \in Addr, input \in C15_Upgrades :
              Propose(a, input)
                  => /\ ~AllZero(input.hash) /\ ~AllOnes(input.hash)
                     /\ a \in Owners
                     /\ proposals'[next_id].proposal_type = input
                     /\ proposals'[next_id].status = "Pending"
                     /\ next_id' = next_id + 1

C15_InvalidUpgradeRefused == []C15_Errors /\ [][C15_Step]_vars

\* A Pending Upgrade proposal with a mixed hash is stored and a further
\* propose is possible.
C15_Witness ==
    /\ next_id <= MaxProposals
    /\ \E id \in Stored :
          /\ proposals[id].proposal_type.tag = "Upgrade"
          /\ proposals[id].status = "Pending"
          /\ proposals[id].votes = NoVotes

(***************************************************************************)
(* C16.  An owner's propose with a Config payload fails with InvalidOwners *)
(* if the owner list has fewer than 2 entries or a duplicate, otherwise    *)
(* with InvalidThreshold if the threshold is outside 2..|owners|,          *)
(* otherwise with NoConfigChanges if the payload equals the live config    *)
(* (for any caller the call fails); no proposal is stored and the config   *)
(* is unchanged; every stored Config proposal carries a valid Config that  *)
(* differed from the live config at its creation.                          *)
(***************************************************************************)
C16_Configs == {input \in ProposalInputs : input.tag = "Config"}

C16_BadOwners(c) ==
    Len(c.owners) < 2 \/ Cardinality({c.owners[i] : i \in DOMAIN c.owners}) # Len(c.owners)

C16_BadThreshold(c) == c.threshold < 2 \/ c.threshold > Len(c.owners)

C16_Expected(c) ==
    IF C16_BadOwners(c) THEN "InvalidOwners"
    ELSE IF C16_BadThreshold(c) THEN "InvalidThreshold"
    ELSE IF c = config THEN "NoConfigChanges"
    ELSE NoError

C16_Errors ==
    /\ \A a \in Addr, input \in C16_Configs :
          /\ C16_Expected(input.config) # NoError => ProposeError(a, input) # NoError
          /\ a \in Owners => ProposeError(a, input) = C16_Expected(input.config)
    /\ \A id \in Stored :
          proposals[id].proposal_type.tag = "Config"
              => /\ ~C16_BadOwners(proposals[id].proposal_type.config)
                 /\ ~C16_BadThreshold(proposals[id].proposal_type.config)

C16_Step ==
    /\ \A id \in DOMAIN proposals' :
          (Created(id) /\ proposals'[id].proposal_type.tag = "Config")
              => /\ C16_Expected(proposals'[id].proposal_type.config) = NoError
                 /\ proposals'[id].proposal_type.config # config
                 /\ config' = config
    /\ UNCHANGED core \/
          \A a \in Addr, input \in C16_Configs :
              Propose(a, input) => C16_Expected(input.config) = NoError

C16_ConfigValidation == []C16_Errors /\ [][C16_Step]_vars

\* After the initial config was replaced, a Config proposal created under the
\* new config is stored Pending and differs from it.
C16_Witness ==
    /\ epoch > 0
    /\ \E id \in Stored :
          /\ proposals[id].proposal_type.tag = "Config"
          /\ proposals[id].status = "Pending"
          /\ proposals[id].created_epoch = epoch
          /\ proposals[id].proposal_type.config # config

(***************************************************************************)
(* C17.  Proposal ids are unique and strictly increasing in creation       *)
(* order: every successful propose or invoke allocates an id greater than  *)
(* every id allocated before, whatever became of the earlier proposals,    *)
(* and no id is ever reused.                                               *)
(***************************************************************************)
C17_Allocated ==
    /\ Stored = FirstId..(next_id - 1)
    /\ \A id \in Stored : proposals[id].id = id

C17_Step ==
    /\ next_id' >= next_id
    /\ Stored \subseteq DOMAIN proposals'
    /\ \A id \in Stored :
          /\ proposals'[id].id = proposals[id].id
          /\ proposals'[id].caller = proposals[id].caller
          /\ proposals'[id].proposal_type = proposals[id].proposal_type
          /\ proposals'[id].created_at = proposals[id].created_at
          /\ proposals'[id].created_epoch = proposals[id].created_epoch
    /\ \A id \in DOMAIN proposals' :
          Created(id)
              => /\ id = next_id
                 /\ proposals'[id].id = id
                 /\ \A old \in Stored : old < id
                 /\ next_id' = next_id + 1
    /\ next_id' # next_id => Created(next_id)

C17_IdsMonotone == []C17_Allocated /\ [][C17_Step]_vars

\* A second proposal created after the first was revoked and had expired.
C17_Witness ==
    \E i, j \in Stored :
        /\ i < j
        /\ proposals[i].status = "Revoked"
        /\ proposals[j].created_at > proposals[i].created_at + WEEK_IN_LEDGERS

(***************************************************************************)
(* C18.  The epoch never decreases; it increases, by exactly one, exactly  *)
(* in the steps that execute a Config or Upgrade proposal.  Executing an   *)
(* Upgrade proposal leaves owners and threshold unchanged, and so does     *)
(* every step that does not execute a Config proposal.                     *)
(***************************************************************************)
C18_Executes(id, tags) ==
    /\ id \in DOMAIN proposals'
    /\ proposals'[id].status = "Executed"
    /\ id \in Stored => proposals[id].status # "Executed"
    /\ proposals'[id].proposal_type.tag \in tags

C18_Step ==
    /\ epoch' \in {epoch, epoch + 1}
    /\ epoch' = epoch + 1 <=> \E id \in Ids : C18_Executes(id, {"Config", "Upgrade"})
    /\ (\E id \in Ids : C18_Executes(id, {"Upgrade"})) => config' = config
    /\ (\A id \in Ids : ~C18_Executes(id, {"Config"})) => config' = config

C18_EpochAndConfigFrame == [][C18_Step]_vars

\* An Upgrade has executed (epoch bumped, config kept) and an Invoke proposal
\* has executed without moving the epoch further.
C18_Witness ==
    /\ epoch = 1
    /\ ExecutedKind({"Upgrade"})
    /\ \E id \in Stored :
          /\ proposals[id].proposal_type.tag = "Invoke"
          /\ proposals[id].status = "Executed"
          /\ proposals[id].created_epoch = 1

(***************************************************************************)
(* C19.  Once now > created_at + TTL for a proposal that is not Rejected,  *)
(* Executed or Revoked, vote, get_proposal and revoke_proposal on it fail  *)
(* with ProposalNotFound for every caller, and no step changes it or makes *)
(* its external call; at now = created_at + TTL a Pending proposal of the  *)
(* current epoch is still accessible.  Expiry is a predicate: the step     *)
(* that advances the ledger rewrites no stored proposal.                   *)
(***************************************************************************)
C19_TTL == WEEK_IN_LEDGERS

C19_Open(p) == p.status \notin {"Rejected", "Executed", "Revoked"}

C19_Access ==
    \A id \in Stored :
        LET p == proposals[id] IN
        /\ (C19_Open(p) /\ now > p.created_at + C19_TTL)
              => /\ Resolve(id) = "ProposalNotFound"
                 /\ \A a \in Addr : VoteError(a, id) = "ProposalNotFound"
                 /\ \A a \in Addr : RevokeError(a, id) = "ProposalNotFound"
        /\ (p.status = "Pending" /\ now = p.created_at + C19_TTL /\ p.created_epoch = epoch)
              => /\ Resolve(id) = NoError
                 /\ RevokeError(p.caller, id) = NoError
                 /\ \A a \in Owners \ DOMAIN p.votes : VoteError(a, id) = NoError

C19_Step ==
    /\ now' >= now
    /\ now' # now => proposals' = proposals
    /\ \A id \in Stored :
          (C19_Open(proposals[id]) /\ now > proposals[id].created_at + C19_TTL)
              => proposals'[id] = proposals[id] /\ calls'[id] = calls[id]

C19_Expiry == []C19_Access /\ [][C19_Step]_vars

\* A Pending proposal holding a vote, one ledger past its TTL.
C19_Witness ==
    \E id \in Stored :
        /\ proposals[id].status = "Pending"
        /\ DOMAIN proposals[id].votes # {}
        /\ now = proposals[id].created_at + C19_TTL + 1

(***************************************************************************)
(* C20.  When the external call of a just-approved Invoke proposal fails,  *)
(* the proposal stays Approved with InvokeError recorded and the config,   *)
(* the epoch and all other proposals are unchanged by that step; every     *)
(* later vote on it is rejected, it never changes again and the call is    *)
(* never made a second time.                                               *)
(***************************************************************************)
C20_Failed(p) == p.status = "Approved"

C20_Terminal ==
    \A id \in Stored :
        C20_Failed(proposals[id])
            => /\ proposals[id].proposal_type.tag = "Invoke"
               /\ proposals[id].error = "InvokeError"
               /\ calls[id] = 1
               /\ \A a \in Addr : VoteError(a, id) # NoError

C20_Step ==
    \A id \in DOMAIN proposals' :
        /\ (C20_Failed(proposals'[id]) /\ (id \in Stored => ~C20_Failed(proposals[id])))
              => /\ calls'[id] = calls[id] + 1
                 /\ config' = config
                 /\ epoch' = epoch
                 /\ \A other \in Stored \ {id} : proposals'[other] = proposals[other]
        /\ (id \in Stored /\ C20_Failed(proposals[id]))
              => proposals'[id] = proposals[id] /\ calls'[id] = calls[id]

C20_InvokeFailure == []C20_Terminal /\ [][C20_Step]_vars

\* The call of an approved Invoke proposal failed and an owner who has not
\* voted on it remains.
C20_Witness ==
    \E id \in Stored :
        /\ C20_Failed(proposals[id])
        /\ proposals[id].error = "InvokeError"
        /\ calls[id] = 1
        /\ Owners \ DOMAIN proposals[id].votes # {}

(***************************************************************************)
(* C21.  Each proposal's effect is applied at most once, and always inside *)
(* the vote step that approved it: the config, the epoch and the call      *)
(* counters change only in the step in which exactly one proposal becomes  *)
(* Approved/Executed through a recorded vote, the change is that           *)
(* proposal's effect (a Config proposal installs its payload, an Upgrade   *)
(* proposal bumps the epoch, an Invoke proposal makes one call), and a     *)
(* proposal that is Approved/Executed is never changed again.              *)
(***************************************************************************)
C21_EffectOf(id) ==
    LET q == proposals'[id] IN
    CASE q.proposal_type.tag = "Config" ->
            /\ config' = q.proposal_type.config
            /\ epoch' = epoch + 1
            /\ calls' = calls
      [] q.proposal_type.tag = "Upgrade" ->
            /\ config' = config
            /\ epoch' = epoch + 1
            /\ calls' = calls
      [] q.proposal_type.tag = "Invoke" ->
            /\ config' = config
            /\ epoch' = epoch
            /\ calls' = [calls EXCEPT ![id] = calls[id] + 1]

C21_Step ==
    /\ (config' # config \/ epoch' # epoch \/ calls' # calls)
          => /\ Cardinality({id \in Ids : ApprovedNow(id)}) = 1
             /\ \A id \in Ids : ApprovedNow(id) => VoteRecorded(id) /\ C21_EffectOf(id)
    /\ \A id \in Ids : ApprovedNow(id) => C21_EffectOf(id)
    /\ \A id \in Stored :
          Approved(proposals[id])
              => proposals'[id] = proposals[id] /\ calls'[id] = calls[id]

C21_AtMostOneCall == \A id \in Ids : calls[id] <= 1

C21_EffectAtMostOnce == []C21_AtMostOneCall /\ [][C21_Step]_vars

\* One proposal of each effect kind has been applied: a config replacement or
\* upgrade in the first epoch and an Invoke call in the second.
C21_Witness ==
    \E i, j \in Stored :
        /\ proposals[i].proposal_type.tag \in {"Config", "Upgrade"}
        /\ proposals[i].status = "Executed"
        /\ proposals[j].proposal_type.tag = "Invoke"
        /\ proposals[j].status = "Executed"
        /\ calls[j] = 1
        /\ epoch = 1

(***************************************************************************)
(* C22.  Calls are serialized, each taking effect as one atomic step, so   *)
(* racing calls give the result of one of their serial orders.  Two owners *)
(* voting Yes on a proposal one Yes short of the threshold: the first vote *)
(* is the only one recorded and executes the proposal once, the other then *)
(* fails.  A vote racing with the creator's revoke_proposal: if the revoke *)
(* goes first the proposal is Revoked without the vote and the vote fails; *)
(* if the vote goes first it is recorded and the revoke then succeeds      *)
(* exactly when the proposal is still Pending.                             *)
(***************************************************************************)
C22_Racers(id) == {a \in Addr : VoteError(a, id) = NoError}

C22_Step ==
    \A id \in Stored :
        LET p == proposals[id]
            q == proposals'[id]
        IN
        /\ Cardinality(DOMAIN q.votes \ DOMAIN p.votes) <= 1
        /\ (VoteRecorded(id) /\ ApprovedNow(id))
              => /\ \A b \in C22_Racers(id) : (VoteError(b, id))' # NoError
                 /\ calls'[id] <= 1
        /\ (p.status = "Pending" /\ q.status = "Revoked")
              => /\ q.votes = p.votes
                 /\ \A b \in C22_Racers(id) : (VoteError(b, id))' = "ProposalNotPending"
        /\ (VoteRecorded(id) /\ RevokeError(p.caller, id) = NoError)
              => IF q.status = "Pending"
                 THEN (RevokeError(p.caller, id))' = NoError
                 ELSE (RevokeError(p.caller, id))' = "ProposalNotPending"

C22_Serialized == [][C22_Step]_vars

\* 2-of-3 Invoke proposal: the second Yes executed it once while the third
\* owner, who could have voted, has no vote recorded.
C22_Witness ==
    /\ Len(config.owners) = 3 /\ config.threshold = 2
    /\ \E id \in Stored :
          /\ proposals[id].status = "Executed"
          /\ proposals[id].created_epoch = epoch
          /\ C12_Tally(proposals[id]) = <<2, 0, 0>>
          /\ calls[id] = 1
          /\ Owners \ DOMAIN proposals[id].votes # {}

(***************************************************************************)
(* C24.  vote on a proposal whose created_epoch is behind the current      *)
(* epoch fails, whatever the stored status and whoever the caller, with    *)
(* ProposalNotPending; it fails with ProposalNotFound, the error of an     *)
(* absent proposal, only when the proposal has also expired.               *)
(***************************************************************************)
C24_StaleVote ==
    \A id \in Stored : \A a \in Addr :
        proposals[id].created_epoch < epoch
            => VoteError(a, id) =
                  IF now > proposals[id].created_at + WEEK_IN_LEDGERS
                  THEN "ProposalNotFound"
                  ELSE "ProposalNotPending"

\* The claim as stated: the error is ProposalNotFound.
C24_Original ==
    \A id \in Stored : \A a \in Addr :
        proposals[id].created_epoch < epoch
            => VoteError(a, id) = "ProposalNotFound"

\* A still Pending, unexpired proposal of an earlier epoch, with an owner who
\* has not voted on it and an address that is not an owner.
C24_Witness ==
    \E id \in Stored :
        /\ proposals[id].created_epoch < epoch
        /\ proposals[id].status = "Pending"
        /\ ~Expired(proposals[id])
        /\ Owners \ DOMAIN proposals[id].votes # {}
        /\ Addr \ Owners # {}

(***************************************************************************)
(* C25.  get_proposal and vote on an unexpired proposal that was created   *)
(* before the last executed config change fail with ProposalNotPending,    *)
(* not ProposalNotFound.                                                   *)
(***************************************************************************)
C25_BeforeConfigChange(id) ==
    \E j \in Stored \ {id} :
        /\ proposals[j].proposal_type.tag = "Config"
        /\ proposals[j].status = "Executed"
        /\ proposals[id].created_epoch <= proposals[j].created_epoch

C27_Scenario(id) ==
    /\ Len(config.owners) = 3 /\ config.threshold = 2
    /\ id \in Stored
    /\ proposals[id].proposal_type.tag = "Config"
    /\ proposals[id].caller \in Owners
    /\ VoteRecorded(id)

\* B's vote v is the one recorded by the step, on top of the votes before.
C27_Cast(id, before, v) ==
    /\ C27_Scenario(id)
    /\ \E b \in Owners \ {proposals[id].caller} :
          /\ DOMAIN proposals[id].votes = before
          /\ b \notin before
          /\ proposals'[id].votes = RecordVote(proposals[id].votes, b, v)
    /\ \A a \in before : proposals[id].votes[a] = v

C27_Counts(id, yes, remaining, status) ==
    /\ CountVotes(proposals'[id].votes, "Yes") = yes
    /\ Remaining(proposals'[id].votes, config') = remaining
    /\ proposals'[id].status = status

C27_Step ==
    /\ \A id \in Ids :
          (Created(id) /\ proposals'[id].proposal_type.tag = "Config")
              => proposals'[id].votes = NoVotes
    /\ \A id \in Stored :
          /\ C27_Cast(id, {}, "Yes") => C27_Counts(id, 1, 2, "Pending")
          /\ \A b \in Owners \ {proposals[id].caller} :
                C27_Cast(id, {b}, "No") => C27_Counts(id, 0, 1, "Rejected")

C27_ScenarioCounts == [][C27_Step]_vars

\* The claim as stated: remaining is 1 after B's Yes and 0 after C's No.
C27_OriginalStep ==
    \A id \in Stored :
        /\ C27_Cast(id, {}, "Yes") => C27_Counts(id, 1, 1, "Pending")
        /\ \A b \in Owners \ {proposals[id].caller} :
              C27_Cast(id, {b}, "No") => C27_Counts(id, 0, 0, "Rejected")

C27_Original == [][C27_OriginalStep]_vars

\* Scenario B has run: a Config proposal of the 3-owner, threshold-2 config
\* was Rejected by two No votes of owners other than its creator.
C27_Witness ==
    /\ Len(config.owners) = 3 /\ config.threshold = 2
    /\ \E id \in Stored :
          /\ proposals[id].proposal_type.tag = "Config"
          /\ proposals[id].created_epoch = epoch
          /\ proposals[id].status = "Rejected"
          /\ DOMAIN proposals[id].votes = Owners \ {proposals[id].caller}
          /\ \A a \in DOMAIN proposals[id].votes : proposals[id].votes[a] = "No"

(***************************************************************************)
(* C28.  The step that records an Abstain vote leaves the Yes count        *)
(* unchanged, reduces the remaining count by one and never approves the    *)
(* proposal; it moves the proposal to Rejected exactly when yes +          *)
(* remaining falls below the threshold, and leaves it Pending otherwise.   *)
(***************************************************************************)
C28_Abstains(id) ==
    /\ id \in Stored
    /\ \E a \in DOMAIN proposals'[id].votes \ DOMAIN proposals[id].votes :
          proposals'[id].votes[a] = "Abstain"

C28_Left(votes) == Len(config.owners) - Cardinality(DOMAIN votes)

C28_Step ==
    \A id \in Ids :
        C28_Abstains(id) =>
            LET p == proposals[id]
                q == proposals'[id]
            IN
            /\ YesVotes(q) = YesVotes(p)
            /\ C28_Left(q.votes) = C28_Left(p.votes) - 1
            /\ config' = config /\ epoch' = epoch /\ calls' = calls
            /\ q.status \in {"Pending", "Rejected"}
            /\ q.status = "Rejected" <=> YesVotes(q) + C28_Left(q.votes) < config.threshold

C28_OriginalStep ==
    \A id \in Ids : C28_Abstains(id) => proposals'[id].status # "Rejected"

C29_Lookup(id) ==
    IF id \notin Stored THEN "ProposalNotFound"
    ELSE IF now > proposals[id].created_at + WEEK_IN_LEDGERS THEN "ProposalNotFound"
    ELSE IF proposals[id].created_epoch < epoch THEN "ProposalNotPending"
    ELSE NoError

C29_Expected(a, id) ==
    IF C29_Lookup(id) # NoError THEN C29_Lookup(id)
    ELSE IF a \notin Owners THEN "NotOwner"
    ELSE IF proposals[id].status # "Pending" THEN "ProposalNotPending"
    ELSE IF a \in DOMAIN proposals[id].votes THEN "VoterAlreadyVoted"
    ELSE NoError

C29_CheckOrder ==
    \A a \in Addr : \A id \in Ids :
        /\ VoteError(a, id) = C29_Expected(a, id)
        /\ (a \notin Owners /\ id \in Stored /\ Accessible(proposals[id])
                /\ proposals[id].status \in {"Rejected", "Revoked"})
              => VoteError(a, id) = "NotOwner"
        /\ (a \in Owners /\ id \in Stored /\ Accessible(proposals[id])
                /\ a \in DOMAIN proposals[id].votes /\ proposals[id].status # "Pending")
              => VoteError(a, id) = "ProposalNotPending"

\* The claim as stated: a non-owner gets ProposalNotFound on an absent, expired
\* or stale proposal and NotOwner on a Rejected or Revoked one; an owner who
\* already voted gets ProposalNotPending on a proposal no longer Pending.
C29_Original ==
    \A a \in Addr : \A id \in Ids :
        /\ (a \notin Owners
                /\ (id \notin Stored \/ Expired(proposals[id]) \/ Stale(proposals[id])))
              => VoteError(a, id) = "ProposalNotFound"
        /\ (a \notin Owners /\ id \in Stored /\ Accessible(proposals[id])
                /\ proposals[id].status \in {"Rejected", "Revoked"})
              => VoteError(a, id) = "NotOwner"
        /\ (a \in Owners /\ id \in Stored /\ Accessible(proposals[id])
                /\ a \in DOMAIN proposals[id].votes /\ proposals[id].status # "Pending")
              => VoteError(a, id) = "ProposalNotPending"

\* An accessible Rejected proposal on which an owner has voted, with an address
\* that is not an owner, next to an unexpired proposal of an earlier epoch.
C29_Witness ==
    /\ Addr \ Owners # {}
    /\ \E id, j \in Stored :
          /\ Accessible(proposals[id])
          /\ proposals[id].status = "Rejected"
          /\ DOMAIN proposals[id].votes \cap Owners # {}
          /\ proposals[j].created_epoch < epoch
          /\ ~Expired(proposals[j])

(***************************************************************************)
(* C30.  Vote-and-execute is one step: no reachable state shows a proposal *)
(* that reached the threshold without its execution having been attempted. *)
(* A current-epoch Pending proposal is below the threshold; an Approved    *)
(* proposal is an Invoke whose one call was made and failed; an Executed   *)
(* proposal shows its effect (the call counted, or the epoch bumped); and  *)
(* a proposal becomes Executed only in the step that takes it from Pending *)
(* (or creates it), never from Approved in a later step.                   *)
(***************************************************************************)
C30_NoWindow ==
    \A id \in Stored :
        LET p == proposals[id] IN
        /\ (p.status = "Pending" /\ p.created_epoch = epoch)
              => YesVotes(p) < config.threshold
        /\ p.status = "Approved"
              => p.proposal_type.tag = "Invoke" /\ calls[id] = 1 /\ p.error # NoError
        /\ p.status = "Executed"
              => IF p.proposal_type.tag = "Invoke"
                 THEN calls[id] = 1
                 ELSE p.created_epoch < epoch

C30_Step ==
    \A id \in DOMAIN proposals' :
        (proposals'[id].status = "Executed" /\ id \in Stored)
            => proposals[id].status \in {"Pending", "Executed"}

C31_AccessibleWithinOwners ==
    \A id \in Stored :
        Accessible(proposals[id])
            => /\ proposals[id].caller \in Owners
               /\ DOMAIN proposals[id].votes \subseteq Owners
               /\ Cardinality(DOMAIN proposals[id].votes) <= Len(config.owners)
               /\ Remaining(proposals[id].votes, config) >= 0

\* An accessible proposal of the second epoch, i.e. after the owner set was
\* replaced, on which every current owner has voted: remaining is 0.
C31_Witness ==
    \E id \in Stored :
        /\ Accessible(proposals[id])
        /\ epoch = 1
        /\ ExecutedKind({"Config"})
        /\ DOMAIN proposals[id].votes = Owners

(***************************************************************************)
(* C32.  A proposal created by propose has an empty votes map and is       *)
(* Pending; its creator, while it is accessible and Pending, can vote on   *)
(* it as long as they have no entry in it and not after.  With 2 owners    *)
(* and threshold 2 a Config proposal is still Pending after the other      *)
(* owner's Yes and is Executed by the step recording the creator's Yes,    *)
(* and no step approves such a proposal without its creator's Yes.         *)
(***************************************************************************)
C32_TwoOfTwo == Len(config.owners) = 2 /\ config.threshold = 2

C32_CreatorVote ==
    \A id \in Stored :
        LET p == proposals[id] IN
        /\ (Accessible(p) /\ p.status = "Pending")
              => (VoteError(p.caller, id) = NoError <=> p.caller \notin DOMAIN p.votes)
        /\ (C32_TwoOfTwo /\ p.created_epoch = epoch /\ p.status = "Pending"
                /\ p.proposal_type.tag = "Config")
              => \A a \in DOMAIN p.votes : a # p.caller => p.votes[a] = "Yes"

C32_Step ==
    /\ \A id \in Ids :
          (Created(id) /\ proposals'[id].proposal_type.tag # "Invoke")
              => proposals'[id].votes = NoVotes /\ proposals'[id].status = "Pending"
    /\ \A id \in Stored :
          LET p == proposals[id]
              q == proposals'[id]
          IN
          (C32_TwoOfTwo /\ p.proposal_type.tag = "Config" /\ VoteRecorded(id))
              => /\ (p.votes = NoVotes /\ p.caller \notin DOMAIN q.votes)
                       => (q.status = "Pending" <=> YesVotes(q) = 1)
                 /\ (YesVotes(p) = 1 /\ p.caller \notin DOMAIN p.votes
                         /\ p.caller \in DOMAIN q.votes /\ q.votes[p.caller] = "Yes")
                       => q.status = "Executed" /\ config' = p.proposal_type.config
    /\ \A id \in Stored :
          (C32_TwoOfTwo /\ proposals[id].proposal_type.tag = "Config" /\ ApprovedNow(id))
              => /\ proposals[id].caller \in DOMAIN proposals'[id].votes
                 /\ proposals'[id].votes[proposals[id].caller] = "Yes"

C32_ProposeDoesNotVote == []C32_CreatorVote /\ [][C32_Step]_vars

\* The example client's run: in a 2-owner, threshold-2 config a Config
\* proposal holds the other owner's Yes, is still Pending, and its creator has
\* not voted yet.
C32_Witness ==
    /\ C32_TwoOfTwo
    /\ \E id \in Stored :
          /\ proposals[id].proposal_type.tag = "Config"
          /\ Accessible(proposals[id])
          /\ proposals[id].status = "Pending"
          /\ YesVotes(proposals[id]) = 1
          /\ proposals[id].caller \in Owners \ DOMAIN proposals[id].votes

(***************************************************************************)
(* C33.  The threshold of every reachable config is at least 2, so the     *)
(* auto-cast Yes of invoke never meets it: the step of a successful invoke *)
(* leaves the new proposal Pending with exactly one vote, its creator's    *)
(* Yes, makes no external call and changes neither config nor epoch.       *)
(***************************************************************************)
C33_Step ==
    \A id \in Ids :
        (Created(id) /\ proposals'[id].proposal_type.tag = "Invoke")
            => LET q == proposals'[id] IN
               /\ config.threshold >= 2
               /\ q.status = "Pending"
               /\ q.error = NoError
               /\ DOMAIN q.votes = {q.caller}
               /\ q.votes[q.caller] = "Yes"
               /\ calls' = calls
               /\ config' = config
               /\ epoch' = epoch

C33_InvokeNeverExecutesAtOnce == [][C33_Step]_vars

\* An Invoke proposal created after the config was replaced, still holding
\* only its creator's Yes.
C33_Witness ==
    \E id \in Stored :
        /\ proposals[id].proposal_type.tag = "Invoke"
        /\ proposals[id].created_epoch = 1
        /\ ExecutedKind({"Config"})
        /\ proposals[id].status = "Pending"
        /\ DOMAIN proposals[id].votes = {proposals[id].caller}
        /\ calls[id] = 0

(***************************************************************************)
(* C34.  The execution of an approved Config proposal never fails          *)
(* validation: the payload of every accessible Config proposal has valid   *)
(* owners, a valid threshold and differs from the live config, so the step *)
(* that approves a Config proposal leaves it Executed with the payload     *)
(* installed, and no Config proposal is ever Approved or carries an error. *)
(***************************************************************************)
C34_IsConfig(p) == p.proposal_type.tag = "Config"

C34_PayloadValid(p) ==
    LET c == p.proposal_type.config IN
    /\ Len(c.owners) >= MinOwners
    /\ ~HasDuplicates(c.owners)
    /\ MinThreshold <= c.threshold
    /\ c.threshold <= Len(c.owners)
    /\ c # config

C34_Validated ==
    \A id \in Stored :
        C34_IsConfig(proposals[id])
            => /\ proposals[id].status # "Approved"
               /\ proposals[id].error = NoError
               /\ Accessible(proposals[id]) => C34_PayloadValid(proposals[id])

C34_Step ==
    \A id \in Stored :
        (C34_IsConfig(proposals[id]) /\ ApprovedNow(id))
            => /\ C34_PayloadValid(proposals[id])
               /\ ConfigError(proposals[id].proposal_type.config) = NoError
               /\ proposals'[id].status = "Executed"
               /\ proposals'[id].error = NoError
               /\ config' = proposals[id].proposal_type.config

C34_ConfigExecutionNeverFails == []C34_Validated /\ [][C34_Step]_vars

\* A Config proposal was executed while another proposal created in the same
\* epoch was on record.
C34_Witness ==
    \E id, other \in Stored :
        /\ id # other
        /\ C34_IsConfig(proposals[id])
        /\ proposals[id].status = "Executed"
        /\ proposals[other].created_epoch = proposals[id].created_epoch
        /\ config = proposals[id].proposal_type.config

(***************************************************************************)
(* C35.  Among the proposals created in any one epoch at most one Config   *)
(* or Upgrade proposal is executed, and the epoch equals the initial epoch *)
(* (0) plus the number of Executed Config and Upgrade proposals.           *)
(***************************************************************************)
C35_Bumps ==
    {id \in Stored : /\ proposals[id].proposal_type.tag \in {"Config", "Upgrade"}
                     /\ proposals[id].status = "Executed"}

C35_OneBumpPerEpoch ==
    /\ \A i, j \in C35_Bumps :
          proposals[i].created_epoch = proposals[j].created_epoch => i = j
    /\ epoch = 0 + Cardinality(C35_Bumps)
    /\ \A id \in Stored : proposals[id].created_epoch <= epoch

\* Two epoch bumps: a Config proposal of epoch 0 and an Upgrade proposal of
\* epoch 1 were both executed.
C35_Witness ==
    /\ epoch = 2
    /\ \E i, j \in C35_Bumps :
          /\ proposals[i].proposal_type.tag = "Config"
          /\ proposals[i].created_epoch = 0
          /\ proposals[j].proposal_type.tag = "Upgrade"
          /\ proposals[j].created_epoch = 1

(***************************************************************************)
(* C36.  No and Abstain are interchangeable for the outcome.  In every     *)
(* step that records a vote, relabelling any of the No/Abstain entries     *)
(* already stored, and the recorded vote itself if it is a No or an        *)
(* Abstain, gives the same status, error marker, config, epoch and         *)
(* external call as the step took; every Pending proposal is undecided     *)
(* under every relabelling; and the errors of vote and revoke_proposal     *)
(* depend on who has voted but not on any stored vote value.               *)
(***************************************************************************)
C36_Twins(v) == IF v = "Yes" THEN {"Yes"} ELSE {"No", "Abstain"}

\* The votes maps that differ from votes only in No/Abstain labels.
C36_Relabelled(votes) ==
    {w \in [DOMAIN votes -> VoteType] : \A a \in DOMAIN votes : w[a] \in C36_Twins(votes[a])}

C36_RevokeExpected(a, id) ==
    IF C29_Lookup(id) # NoError THEN C29_Lookup(id)
    ELSE IF proposals[id].status # "Pending" THEN "ProposalNotPending"
    ELSE IF a # proposals[id].caller THEN "NotCaller"
    ELSE NoError

C36_SameErrors ==
    /\ \A a \in Addr : \A id \in Ids :
          /\ VoteError(a, id) = C29_Expected(a, id)
          /\ RevokeError(a, id) = C36_RevokeExpected(a, id)
    /\ \A id \in Stored :
          (Accessible(proposals[id]) /\ proposals[id].status = "Pending")
              => \A w \in C36_Relabelled(proposals[id].votes) : Decide(w, config) = "Pending"

\* The result of call_external in the step, where the call was made.
C36_Ok(id) == proposals'[id].status # "Approved"

C36_Step ==
    UNCHANGED proposals \/
    \A id \in Stored :
        VoteRecorded(id) =>
            \A a \in DOMAIN proposals'[id].votes \ DOMAIN proposals[id].votes :
                \A w \in C36_Relabelled(proposals[id].votes) :
                    \A v \in C36_Twins(proposals'[id].votes[a]) :
                        LET twin == Settle([proposals[id] EXCEPT !.votes = RecordVote(w, a, v)],
                                           C36_Ok(id))
                        IN  /\ twin.prop.status = proposals'[id].status
                            /\ twin.prop.error = proposals'[id].error
                            /\ twin.config = config'
                            /\ twin.epoch = epoch'
                            /\ twin.called = (calls' # calls)

C36_NoAbstainInterchangeable == []C36_SameErrors /\ [][C36_Step]_vars

\* Both labels decided a proposal: the docs' 1 Yes, 1 No, 1 Abstain example.
C36_Witness ==
    /\ Len(config.owners) = 3 /\ config.threshold = 2
    /\ \E id \in Stored :
          /\ proposals[id].created_epoch = epoch
          /\ C12_Tally(proposals[id]) = <<1, 1, 1>>
          /\ proposals[id].status = "Rejected"

(***************************************************************************)
(* C37.  submitTransaction runs getAccount, build, simulate, assemble,     *)
(* sign, send, poll in that order.  It has signed or sent nothing unless   *)
(* the simulation succeeded, has polled nothing after a send response      *)
(* ERROR, and has returned only with a last polled status that is neither  *)
(* NOT_FOUND nor FAILED; a simulation error, a send response ERROR and a   *)
(* polled FAILED each end in a throw, the simulation error with the        *)
(* message parseSimulationError gives it.                                  *)
(***************************************************************************)
C37_Order ==
    [idle |-> {"getAccount"},
     getAccount |-> {"build", "thrown"},
     build |-> {"simulateTransaction"},
     simulateTransaction |-> {"assembleTransaction", "thrown"},
     assembleTransaction |-> {"sign"},
     sign |-> {"sendTransaction"},
     sendTransaction |-> {"getTransaction", "thrown"},
     getTransaction |-> {"while"},
     while |-> {"setTimeout", "returned", "thrown"},
     setTimeout |-> {"getTransaction"},
     returned |-> {},
     thrown |-> {}]

C37_Step == client'.pc # client.pc => client'.pc \in C37_Order[client.pc]

C37_Simulated == client.simulation # NoSimulation

C37_Sent == client.response # NoValue

C37_Polled == client.result # NoValue

C37_Guards ==
    client.fn = "submitTransaction" =>
        /\ client.pc \in {"assembleTransaction", "sign", "sendTransaction"} \/ C37_Sent
              => client.simulation.status = "success"
        /\ (C37_Polled \/ client.pc \in {"getTransaction", "while", "setTimeout"})
              => C37_Sent /\ client.response # "ERROR"
        /\ client.pc = "returned"
              => C37_Polled /\ client.result \notin {"NOT_FOUND", "FAILED"}
        /\ isSimulationError(client.simulation)
              => /\ client.pc = "thrown"
                 /\ client.error = parseSimulationError(client.simulation)
                 /\ ~C37_Sent
        /\ (C37_Sent /\ client.response = "ERROR")
              => client.pc = "thrown" /\ ~C37_Polled
        /\ (C37_Polled /\ client.result = "FAILED")
              => client.pc \in {"while", "thrown"}
        /\ client.pc = "thrown"
              => \/ ~C37_Simulated
                 \/ isSimulationError(client.simulation)
                 \/ (C37_Sent /\ client.response = "ERROR")
                 \/ (C37_Polled /\ client.result = "FAILED")

C37_SubmitOrder == []C37_Guards /\ [][C37_Step]_vars

\* A vote was simulated, signed, sent and accepted, and the call has returned
\* on a polled SUCCESS.
C37_Witness ==
    /\ client.fn = "submitTransaction"
    /\ client.operation = "vote"
    /\ client.pc = "returned"
    /\ client.simulation.status = "success"
    /\ client.response = "PENDING"
    /\ client.result = "SUCCESS"

(***************************************************************************)
(* C38.  The confirmation poll of submitTransaction and of                 *)
(* deployVoltaContract ends, by a return or a throw, once the server       *)
(* reports a status other than NOT_FOUND for the transaction; it has no    *)
(* retry limit: after a polled NOT_FOUND the only next statements are the  *)
(* wait and the next poll, and the loop is left only on a polled status    *)
(* other than NOT_FOUND.                                                   *)
(***************************************************************************)
C38_Polling == client.pc \in {"getTransaction", "while", "setTimeout"}

C38_Done == client.pc \in {"returned", "thrown"}

C38_Reported == C38_Polling /\ network # "NOT_FOUND"

C38_Step ==
    /\ (client.pc = "while" /\ client.result = "NOT_FOUND")
          => client'.pc \in {"while", "setTimeout"}
    /\ client.pc = "setTimeout" => client'.pc \in {"setTimeout", "getTransaction"}
    /\ client.pc = "getTransaction" => client'.pc \in {"getTransaction", "while"}
    /\ (C38_Polling /\ C38_Done')
          => /\ client.pc = "while"
             /\ client.result # "NOT_FOUND"
             /\ client'.pc = "returned" <=> client.result = "SUCCESS"

C38_PollTerminates == [][C38_Step]_vars /\ (C38_Reported ~> C38_Done)

\* The client waits after a polled NOT_FOUND while the server has the
\* transaction's final status: the next poll ends the loop.
C38_Witness ==
    /\ client.pc = "setTimeout"
    /\ client.result = "NOT_FOUND"
    /\ network # "NOT_FOUND"

====
